---- MODULE Spec2Model ----
(***************************************************************************)
(* State-machine model of the two agent-based simulations of the           *)
(* repository: the wealth model (src/boltzmann.py: MoneyAgent, MoneyModel, *)
(* compute_gini) and the binary voter model (src/bvm/bvm.py: VoterAgent,   *)
(* SocialWorld).                                                           *)
(*                                                                         *)
(* Numbers.  Wealth is held in units of 1/Unit, so the literal 1 of the    *)
(* source is Unit.  int_rate ranges over integers, so the factor           *)
(* (1 + int_rate) is an integer, and ubi over multiples of 1/Unit: on      *)
(* these values Python's int and float arithmetic is exact, and so is the  *)
(* model's.  A ratio (Gini, FracRed) is the pair <<numerator,              *)
(* denominator>> of the division the source performs.                      *)
(*                                                                         *)
(* Library calls.  RandomActivation, DataCollector (mesa) and              *)
(* erdos_renyi_graph, is_connected (networkx) are modelled at their call   *)
(* sites by what the call does: a uniform shuffle of the agent keys        *)
(* followed by one step() per key, an append of one row of reporter        *)
(* values, a draw of a G(N,p) graph, and graph connectivity.               *)
(***************************************************************************)
EXTENDS Integers, Sequences, FiniteSets, TLC

\* ------------------------------------------------------------------ bounds
\* Largest population N of a whole run (Spec, FairSpec).
MaxN == 2
\* The argument n of run(n).
MaxSteps == 2
\* Largest population, and largest wealth (in 1/Unit), of the states
\* compute_gini and give_money are applied to on their own (CallSpec).
MaxPop == 3
MaxWealth == 4
\* The batch mode: iterations and max_steps of the BatchRunner.
Iterations == 2
BatchMaxSteps == 2

\* Resolution of wealth: the literal 1 of the source (initial wealth, floor
\* of to_give) is Unit units of 1/Unit.
Unit == 2
\* Resolution of p: self.p is p/PDen, so PDen == 2 gives 0, 0.5 and 1.
PDen == 2

\* ------------------------------------------------------------ input values

IntRates == {-1, 0, 1}
Ubis == {-1, 0, 1}
Opinions == {"RED", "BLUE"}
\* The value of `other` while no give_money call has drawn a partner.
NoAgent == -1

\* The value of `batch` in the single mode: no BatchRunner exists.
NoBatch == [pos |-> "off", combo |-> 0, it |-> 0, run_count |-> 0,
            built |-> 0, rows |-> {}]

VARIABLES
    kind,            \* "money" (MoneyModel) or "social" (SocialWorld)
    num_agents,      \* self.num_agents
    int_rate,        \* self.int_rate
    ubi,             \* self.ubi, in 1/Unit
    p,               \* self.p, in 1/PDen
    G,               \* self.G: the edge set, a set of 2-element sets of ids
    wealth,          \* a.wealth for every agent, in 1/Unit
    opinion,         \* a.opinion for every agent
    num_steps,       \* self.num_steps
    running,         \* self.running
    schedule_steps,  \* self.schedule.steps: completed scheduler passes
    agent_keys,      \* the rest of the shuffled key list of schedule.step()
    records,         \* the datacollector's rows, in collection order
    pc,              \* position of the run: construct, idle, collect,
                     \* schedule, tick, done, failed
    apc,             \* position inside MoneyAgent.step: interest, give, ubi
    iter,            \* iterations of run()'s for loop started so far
    other,           \* the partner drawn by the last give_money, or NoAgent
    nei,             \* the agent consulted by the running VoterAgent.step
    tick_opinion,    \* history: the opinions when the current pass started
    activated,       \* history: step() calls per agent in the current pass
    passRows,        \* history: the reporter values at the end of every pass
    batch            \* the BatchRunner of the batch mode, NoBatch otherwise

vars == <<kind, num_agents, int_rate, ubi, p, G, wealth, opinion, num_steps,
          running, schedule_steps, agent_keys, records, pc, apc, iter, other,
          nei, tick_opinion, activated, passRows, batch>>

\* ----------------------------------------------------------------- helpers
AgentIds(N) == 0 .. (N - 1)

Agents == AgentIds(num_agents)

RECURSIVE SumOver(_, _)
SumOver(f, S) ==
    IF S = {} THEN 0
    ELSE LET x == CHOOSE y \in S : TRUE
         IN  f[x] + SumOver(f, S \ {x})

RECURSIVE SumSeq(_)
SumSeq(s) == IF s = <<>> THEN 0 ELSE Head(s) + SumSeq(Tail(s))

TotalWealth == SumOver(wealth, Agents)

\* [a.wealth for a in model.schedule.agents]: the agents in insertion order.
WealthList(w, N) == [i \in 1 .. N |-> w[i - 1]]

\* sorted(...): ascending, by insertion of each element in turn.
RECURSIVE InsertSorted(_, _)
InsertSorted(x, s) ==
    IF s = <<>> THEN <<x>>
    ELSE IF x <= Head(s) THEN <<x>> \o s
    ELSE <<Head(s)>> \o InsertSorted(x, Tail(s))

RECURSIVE Sorted(_)
Sorted(s) == IF s = <<>> THEN <<>> ELSE InsertSorted(Head(s), Sorted(Tail(s)))

\* A faulty variant of GiniInput: the wealths are left in agent order.
GiniInputUnsorted(w, N) == WealthList(w, N)

GiniInput(w, N) == Sorted(WealthList(w, N))

\* compute_gini as the pair <<numerator, denominator>> of
\* 1 + 1/N - 2*B, B = sum(wi*(N-i)) / (N*sum(w)), i from 0:
\* (N*T + T - 2*S) / (N*T) with S = sum(wi*(N-i)), T = sum(w).
\* The denominator is 0 exactly when the source divides by zero.
compute_gini(w, N) ==
    LET ws == GiniInput(w, N)
        S  == SumSeq([i \in 1 .. N |-> ws[i] * (N - (i - 1))])
        T  == SumSeq(ws)
    IN  <<N * T + T - 2 * S, N * T>>

\* frac_with_opinion(agents, RED) as <<count, len(agents)>>.
frac_with_opinion(op, N) ==
    <<Cardinality({a \in AgentIds(N) : op[a] = "RED"}), N>>

\* ------------------------------------------------------------ contact graph
Pairs(N) == {{a, b} : a \in AgentIds(N), b \in AgentIds(N)} \ {{a} : a \in AgentIds(N)}

\* nx.erdos_renyi_graph(N, p): every pair is an edge with probability p, so
\* p <= 0 yields the empty graph, p >= 1 the complete graph, and any other
\* p every graph on the N nodes.
erdos_renyi_graph(N, pv) ==
    {E \in SUBSET Pairs(N) : (pv <= 0 => E = {}) /\ (pv >= PDen => E = Pairs(N))}

\* self.model.G.adj[a]
Adj(E, a) == {b \in UNION E : {a, b} \in E /\ b # a}

RECURSIVE ReachFrom(_, _)
ReachFrom(E, R) ==
    LET R2 == R \cup UNION {Adj(E, a) : a \in R}
    IN  IF R2 = R THEN R ELSE ReachFrom(E, R2)

\* A faulty variant of is_connected: the first graph drawn is taken as it is.
is_connected_unchecked(E, N) == TRUE

\* nx.is_connected(G): every node is reached from node 0.
is_connected(E, N) == ReachFrom(E, {0}) = AgentIds(N)

\* --------------------------------------------------------------- scheduler
Range(s) == {s[i] : i \in DOMAIN s}

\* The orders a shuffle of the keys of S can produce: its permutations.
Shuffles(S) ==
    {s \in [1 .. Cardinality(S) -> S] : \A i, j \in DOMAIN s : i # j => s[i] # s[j]}

\* A faulty variant of ScheduleOrders: the pass runs over the key list twice.
ScheduleOrdersTwice(S) == {s \o t : s \in Shuffles(S), t \in Shuffles(S)}

\* self.schedule.step(): the key lists one pass of RandomActivation may take.
ScheduleOrders(S) == Shuffles(S)

\* A faulty variant of ScheduleAgents: the list is in another order than
\* the one the agents were added in.
ScheduleAgentsReversed(N) == [i \in 1 .. N |-> N - i]

\* self.model.schedule.agents[k]: the agents are listed in insertion order,
\* and agent i was added i-th, counting from 0.
ScheduleAgents(N) == [i \in 1 .. N |-> i - 1]

AgentAt(k) == ScheduleAgents(num_agents)[k + 1]

\* ----------------------------------------------------------- data collector
\* The row one collect() appends: the model reporters (Gini; FracRed) and
\* the agent reporters (agent_wealth; none), tagged with schedule.steps.
ReporterRow(k, w, op, N, steps) ==
    IF k = "money"
    THEN [step |-> steps, model_vars |-> compute_gini(w, N), agent_vars |-> w]
    ELSE [step |-> steps, model_vars |-> frac_with_opinion(op, N), agent_vars |-> <<>>]

\* The division of compute_gini raises ZeroDivisionError.
ReporterRaises(row) == row.model_vars[2] = 0

\* A faulty variant of StepBody: the scheduler pass comes before the collection.
StepBodyScheduleFirst == <<"schedule", "collect">>

\* The statements of step() after the bookkeeping, in program order:
\* self.datacollector.collect(self); self.schedule.step().
StepBody == <<"collect", "schedule">>

\* The position after statement s of step(): the next statement, or back
\* in run()'s loop when s is the last one.
After(s) ==
    LET i == CHOOSE j \in DOMAIN StepBody : StepBody[j] = s
    IN  IF i < Len(StepBody) THEN StepBody[i + 1] ELSE "idle"

\* ------------------------------------------------------------ wealth model
Max(a, b) == IF a >= b THEN a ELSE b

\* A faulty variant of ToGive: the amount is the wealth itself, without the floor.
ToGiveUnfloored(w) == w

\* to_give = max(self.wealth, 1)
ToGive(w) == Max(w, Unit)

\* A faulty variant of give_money: both updates start from the wealths before the
\* call, so the second overwrites the first when self is its own partner.
give_money_stale(w, self, o) ==
    LET to_give == ToGive(w[self])
    IN  [a \in DOMAIN w |->
            IF a = self THEN w[a] - to_give
            ELSE IF a = o THEN w[a] + to_give ELSE w[a]]

\* A faulty variant of give_money: the partner is credited and the giver
\* is not debited.
give_money_no_debit(w, self, o) == [w EXCEPT ![o] = @ + ToGive(w[self])]

\* MoneyAgent.give_money with partner o: other.wealth += to_give, then
\* self.wealth -= to_give.
give_money(w, self, o) ==
    LET to_give == ToGive(w[self])
        w1 == [w EXCEPT ![o] = @ + to_give]
    IN  [w1 EXCEPT ![self] = @ - to_give]

\* A faulty variant of Gives: the test is >= 0.
GivesFromZero(w) == w >= 0

\* if self.wealth > 0: the agent calls give_money.
Gives(w) == w > 0

\* ------------------------------------------------------------ voter model
\* A faulty variant of Unanimous: the comparison is inverted.
UnanimousInverted(op, N) == \A i \in 1 .. (N - 1) : op[AgentAt(i)] # op[AgentAt(0)]

\* A faulty variant of Unanimous: every agent is compared with itself.
UnanimousSelfCompare(op, N) == \A i \in 1 .. (N - 1) : op[AgentAt(i)] = op[AgentAt(i)]

\* all(a.opinion == agents[0].opinion for a in agents[1:])
Unanimous(op, N) == \A i \in 1 .. (N - 1) : op[AgentAt(i)] = op[AgentAt(0)]

\* A faulty variant of NeighbourOpinion: the opinion the neighbour held when
\* the pass started.
NeighbourOpinionAtTickStart(op, snap, n) == snap[n]

\* nei.opinion, read when the agent is activated.
NeighbourOpinion(op, snap, n) == op[n]

\* A faulty variant of Imitate: the neighbour takes the agent's opinion.
ImitateWrongWay(op, snap, a, n) == [op EXCEPT ![n] = op[a]]

\* A faulty variant of Imitate: the new opinion is not stored.
ImitateNever(op, snap, a, n) == op

\* A faulty variant of Imitate: the agent changes its opinion whenever it
\* has listened to a neighbour.
ImitateFlip(op, snap, a, n) ==
    [op EXCEPT ![a] = CHOOSE o \in Opinions : o # op[a]]

\* if self.opinion != nei.opinion: self.opinion = nei.opinion
Imitate(op, snap, a, n) ==
    LET o == NeighbourOpinion(op, snap, n)
    IN  IF op[a] # o THEN [op EXCEPT ![a] = o] ELSE op

\* self.model.schedule.agents[np.random.choice(neis)]: the agents the
\* activated agent a may consult.
VoterChoices(E, a) == {AgentAt(k) : k \in Adj(E, a)}

\* The opinions VoterAgent.step of agent a may leave, started on op.
AgentOutcomes(E, op, snap, a) ==
    IF VoterChoices(E, a) = {} THEN {op}
    ELSE {Imitate(op, snap, a, n) : n \in VoterChoices(E, a)}

\* The opinions one scheduler pass over the key list keys may leave,
\* started on one of ops: VoterAgent.step of every key in turn.
RECURSIVE PassOutcomes(_, _, _, _)
PassOutcomes(E, ops, snap, keys) ==
    IF keys = <<>> THEN ops
    ELSE PassOutcomes(E, UNION {AgentOutcomes(E, op, snap, Head(keys)) : op \in ops},
                      snap, Tail(keys))

\* A faulty variant of StepReturns: step() never returns early.
StepReturnsNever(r) == FALSE

\* if not self.running: return
StepReturns(r) == ~r

\* ------------------------------------------------------------------- Init
\* MoneyModel(N, MoneyAgent, int_rate, ubi) after __init__.
InitMoney ==
    /\ kind = "money"
    /\ num_agents \in 1 .. MaxN
    /\ int_rate \in IntRates
    /\ ubi \in Ubis
    /\ p = 0
    /\ G = {}
    /\ wealth = [a \in Agents |-> Unit]
    /\ opinion = [a \in Agents |-> "NONE"]
    /\ running = TRUE
    /\ pc = "idle"
    /\ passRows = <<ReporterRow(kind, wealth, opinion, num_agents, 0)>>

\* SocialWorld(N, p) with the first graph drawn, at the head of the
\* while loop; the agents do not exist yet, and running is not set yet.
InitSocial ==
    /\ kind = "social"
    /\ num_agents \in 1 .. MaxN
    /\ int_rate = 0
    /\ ubi = 0
    /\ p \in 0 .. PDen
    /\ G \in erdos_renyi_graph(num_agents, p)
    /\ wealth = [a \in Agents |-> 0]
    /\ opinion = [a \in Agents |-> "NONE"]
    /\ running = TRUE
    /\ pc = "construct"
    /\ passRows = <<>>

Init ==
    /\ (InitMoney \/ InitSocial)
    /\ num_steps = 0
    /\ schedule_steps = 0
    /\ agent_keys = <<>>
    /\ records = <<>>
    /\ apc = "interest"
    /\ iter = 0
    /\ other = NoAgent
    /\ nei = NoAgent
    /\ tick_opinion = opinion
    /\ activated = [a \in Agents |-> 0]
    /\ batch = NoBatch

\* ---------------------------------------------------------------- actions
\* The body of the while loop of SocialWorld.__init__: draw again.
Regenerate ==
    /\ pc = "construct"
    /\ ~is_connected(G, num_agents)
    /\ G' \in erdos_renyi_graph(num_agents, p)
    /\ UNCHANGED <<batch, nei, tick_opinion, kind, num_agents, int_rate, ubi, p, wealth, opinion, num_steps,
                   running, schedule_steps, agent_keys, records, pc, apc, iter,
                   other, activated, passRows>>

\* The rest of SocialWorld.__init__ once the loop is left: one VoterAgent
\* per node with a random opinion, running = True.
Construct ==
    /\ pc = "construct"
    /\ is_connected(G, num_agents)
    /\ opinion' \in [Agents -> Opinions]
    /\ running' = TRUE
    /\ pc' = "idle"
    /\ passRows' = <<ReporterRow(kind, wealth, opinion', num_agents, 0)>>
    /\ UNCHANGED <<batch, nei, tick_opinion, kind, num_agents, int_rate, ubi, p, G, wealth, num_steps,
                   schedule_steps, agent_keys, records, apc, iter, other, activated>>

\* One iteration of MoneyModel.run calls MoneyModel.step: num_steps += 1.
MoneyStep ==
    /\ pc = "idle"
    /\ kind = "money"
    /\ iter < MaxSteps
    /\ iter' = iter + 1
    /\ num_steps' = num_steps + 1
    /\ pc' = StepBody[1]
    /\ UNCHANGED <<batch, nei, tick_opinion, kind, num_agents, int_rate, ubi, p, G, wealth, opinion, running,
                   schedule_steps, agent_keys, records, apc, other, activated,
                   passRows>>

\* SocialWorld.step up to its first statement that is a call: the early
\* return, the convergence test, num_steps += 1.
SocialWorldStep ==
    IF StepReturns(running)
    THEN UNCHANGED <<running, num_steps, pc>>
    ELSE /\ running' = IF Unanimous(opinion, num_agents) THEN FALSE ELSE running
         /\ num_steps' = num_steps + 1
         /\ pc' = StepBody[1]

\* One iteration of SocialWorld.run calls SocialWorld.step.
SocialStep ==
    /\ pc = "idle"
    /\ kind = "social"
    /\ iter < MaxSteps
    /\ iter' = iter + 1
    /\ SocialWorldStep
    /\ UNCHANGED <<batch, nei, tick_opinion, kind, num_agents, int_rate, ubi, p, G, wealth, opinion,
                   schedule_steps, agent_keys, records, apc, other, activated,
                   passRows>>

\* run() leaves its loop.
RunReturn ==
    /\ pc = "idle"
    /\ iter = MaxSteps
    /\ pc' = "done"
    /\ UNCHANGED <<batch, nei, tick_opinion, kind, num_agents, int_rate, ubi, p, G, wealth, opinion, num_steps,
                   running, schedule_steps, agent_keys, records, apc, iter, other,
                   activated, passRows>>

\* self.datacollector.collect(self): one row, or the reporter's exception,
\* which nothing catches.
Collect ==
    /\ pc = "collect"
    /\ LET row == ReporterRow(kind, wealth, opinion, num_agents, schedule_steps)
       IN  IF ReporterRaises(row)
           THEN pc' = "failed" /\ UNCHANGED records
           ELSE pc' = After("collect") /\ records' = Append(records, row)
    /\ UNCHANGED <<batch, nei, tick_opinion, kind, num_agents, int_rate, ubi, p, G, wealth, opinion, num_steps,
                   running, schedule_steps, agent_keys, apc, iter, other, activated,
                   passRows>>

\* self.schedule.step() starts: the keys are shuffled.
ScheduleStep ==
    /\ pc = "schedule"
    /\ agent_keys' \in ScheduleOrders(Agents)
    /\ activated' = [a \in Agents |-> 0]
    /\ tick_opinion' = opinion
    /\ pc' = "tick"
    /\ UNCHANGED <<batch, nei, kind, num_agents, int_rate, ubi, p, G, wealth, opinion, num_steps,
                   running, schedule_steps, records, apc, iter, other, passRows>>

\* MoneyAgent.step is called: self.wealth *= (1 + self.model.int_rate).
AgentInterest ==
    /\ pc = "tick" /\ kind = "money" /\ agent_keys # <<>> /\ apc = "interest"
    /\ LET a == Head(agent_keys)
       IN  /\ wealth' = [wealth EXCEPT ![a] = @ * (1 + int_rate)]
           /\ activated' = [activated EXCEPT ![a] = @ + 1]
    /\ apc' = "give"
    /\ UNCHANGED <<batch, nei, tick_opinion, kind, num_agents, int_rate, ubi, p, G, opinion, num_steps, running,
                   schedule_steps, agent_keys, records, pc, iter, other, passRows>>

\* if self.wealth > 0: self.give_money(), with a partner drawn among all
\* agents.
AgentGive ==
    /\ pc = "tick" /\ kind = "money" /\ agent_keys # <<>> /\ apc = "give"
    /\ LET a == Head(agent_keys)
       IN  IF Gives(wealth[a])
           THEN \E o \in Agents :
                    /\ other' = AgentAt(o)
                    /\ wealth' = give_money(wealth, a, AgentAt(o))
           ELSE UNCHANGED <<wealth, other>>
    /\ apc' = "ubi"
    /\ UNCHANGED <<batch, nei, tick_opinion, kind, num_agents, int_rate, ubi, p, G, opinion, num_steps, running,
                   schedule_steps, agent_keys, records, pc, iter, activated, passRows>>

\* self.wealth += self.model.ubi, and MoneyAgent.step returns.
AgentUbi ==
    /\ pc = "tick" /\ kind = "money" /\ agent_keys # <<>> /\ apc = "ubi"
    /\ wealth' = [wealth EXCEPT ![Head(agent_keys)] = @ + ubi]
    /\ agent_keys' = Tail(agent_keys)
    /\ apc' = "interest"
    /\ other' = NoAgent
    /\ UNCHANGED <<batch, nei, tick_opinion, kind, num_agents, int_rate, ubi, p, G, opinion, num_steps, running,
                   schedule_steps, records, pc, iter, activated, passRows>>

\* VoterAgent.step: imitate one neighbour drawn among the graph neighbours.
VoterStep ==
    /\ pc = "tick" /\ kind = "social" /\ agent_keys # <<>>
    /\ LET a == Head(agent_keys)
           neis == Adj(G, a)
       IN  /\ IF neis = {}
              THEN UNCHANGED opinion /\ nei' = NoAgent
              ELSE \E n \in VoterChoices(G, a) :
                       /\ nei' = n
                       /\ opinion' = Imitate(opinion, tick_opinion, a, n)
           /\ activated' = [activated EXCEPT ![a] = @ + 1]
    /\ agent_keys' = Tail(agent_keys)
    /\ UNCHANGED <<batch, tick_opinion, kind, num_agents, int_rate, ubi, p, G, wealth, num_steps, running,
                   schedule_steps, records, pc, apc, iter, other, passRows>>

\* self.schedule.step() returns: every key was visited, steps += 1.
EndTick ==
    /\ pc = "tick"
    /\ agent_keys = <<>>
    /\ schedule_steps' = schedule_steps + 1
    /\ passRows' = Append(passRows,
                          ReporterRow(kind, wealth, opinion, num_agents, schedule_steps'))
    /\ pc' = After("schedule")
    /\ nei' = NoAgent
    /\ UNCHANGED <<batch, tick_opinion, kind, num_agents, int_rate, ubi, p, G, wealth, opinion, num_steps,
                   running, agent_keys, records, apc, iter, other, activated>>

Next ==
    \/ Regenerate
    \/ Construct
    \/ MoneyStep
    \/ SocialStep
    \/ RunReturn
    \/ Collect
    \/ ScheduleStep
    \/ AgentInterest
    \/ AgentGive
    \/ AgentUbi
    \/ VoterStep
    \/ EndTick

Spec == Init /\ [][Next]_vars

\* The random draws are fair: a graph that can be drawn again and again is
\* drawn at some point, and a run that can go on does.
FairSpec ==
    /\ Spec
    /\ WF_vars(Next)
    /\ SF_vars(Regenerate /\ is_connected(G', num_agents))

\* --------------------------------------------- single calls on any state
\* A MoneyModel in any state of at most MaxPop agents, either about to
\* collect (compute_gini is applied to it) or inside the step of one agent,
\* about to reach give_money.
CallInit ==
    /\ kind = "money"
    /\ num_agents \in 1 .. MaxPop
    /\ int_rate = 0
    /\ ubi = 0
    /\ p = 0
    /\ G = {}
    /\ wealth \in [Agents -> (-1) .. MaxWealth]
    /\ opinion = [a \in Agents |-> "NONE"]
    /\ running = TRUE
    /\ num_steps = 1
    /\ schedule_steps = 0
    /\ records = <<>>
    /\ iter = 1
    /\ other = NoAgent
    /\ nei = NoAgent
    /\ tick_opinion = opinion
    /\ passRows = <<>>
    /\ batch = NoBatch
    /\ \/ /\ pc = "collect"
          /\ agent_keys = <<>>
          /\ apc = "interest"
          /\ activated = [a \in Agents |-> 0]
       \/ /\ pc = "tick"
          /\ \E a \in Agents :
                 /\ agent_keys = <<a>>
                 /\ activated = [b \in Agents |-> IF b = a THEN 1 ELSE 0]
          /\ apc = "give"

CallNext == Collect \/ AgentGive

CallSpec == CallInit /\ [][CallNext]_vars

\* ------------------------------------- the voter model on a complete graph
\* SocialWorld(4, 1.0) at the head of the while loop: with p = 1 the graph
\* drawn is the complete graph on the four nodes.
CompleteInit ==
    /\ kind = "social"
    /\ num_agents = 4
    /\ int_rate = 0
    /\ ubi = 0
    /\ p = PDen
    /\ G \in erdos_renyi_graph(num_agents, p)
    /\ wealth = [a \in Agents |-> 0]
    /\ opinion = [a \in Agents |-> "NONE"]
    /\ running = TRUE
    /\ pc = "construct"
    /\ passRows = <<>>
    /\ num_steps = 0
    /\ schedule_steps = 0
    /\ agent_keys = <<>>
    /\ records = <<>>
    /\ apc = "interest"
    /\ iter = 0
    /\ other = NoAgent
    /\ nei = NoAgent
    /\ tick_opinion = opinion
    /\ activated = [a \in Agents |-> 0]
    /\ batch = NoBatch

CompleteNext ==
    \/ Construct
    \/ SocialStep
    \/ RunReturn
    \/ Collect
    \/ ScheduleStep
    \/ VoterStep
    \/ EndTick

\* The draws are fair: a run that can go on does, and a neighbour that can
\* be consulted again and again is consulted at some point.
CompleteSpec ==
    /\ CompleteInit
    /\ [][CompleteNext]_vars
    /\ WF_vars(CompleteNext)
    /\ \A k \in AgentIds(4) : SF_vars(VoterStep /\ nei' = k)

\* ----------------------------------------------------------- the batch mode
\* `python boltzmann.py batch` and `python bvm.py batch`: a BatchRunner over
\* the grid of N with `iterations` trials per value and at most max_steps
\* scheduler passes per trial.

\* variable_params["N"]: range(5, 100), np.arange(10, 100, 5).
Grid == [i \in 1 .. MaxN |-> i]
\* fixed = {"p": .2}: a density strictly between 0 and 1 (0 when the
\* resolution of p has nothing in between).
BatchP == PDen \div 2

\* The keyword arguments BatchRunner passes to the model class: the fixed
\* and the variable parameters.
BatchKwargs(k) == IF k = "money" THEN {"N"} ELSE {"N", "p"}

\* The parameters of __init__ that have no default.
Required(k) ==
    IF k = "money" THEN {"N", "agent_class", "int_rate", "ubi"} ELSE {"N", "p"}

\* model_cls(**kwargs) binds its arguments; otherwise it raises TypeError.
ConstructorAccepts(k) == BatchKwargs(k) = Required(k)

\* The trials of a whole batch: len(grid) * iterations.
Trials == Len(Grid) * Iterations

\* The state when BatchRunner(...) is built: no model exists yet.
BatchInit ==
    /\ kind \in {"money", "social"}
    /\ num_agents = 0
    /\ int_rate = 0
    /\ ubi = 0
    /\ p = 0
    /\ G = {}
    /\ wealth = [a \in Agents |-> 0]
    /\ opinion = [a \in Agents |-> "NONE"]
    /\ running = TRUE
    /\ pc = "none"
    /\ passRows = <<>>
    /\ num_steps = 0
    /\ schedule_steps = 0
    /\ agent_keys = <<>>
    /\ records = <<>>
    /\ apc = "interest"
    /\ iter = 0
    /\ other = NoAgent
    /\ nei = NoAgent
    /\ tick_opinion = opinion
    /\ activated = [a \in Agents |-> 0]
    /\ batch = [pos |-> "next", combo |-> 1, it |-> 0, run_count |-> 0,
                built |-> 0, rows |-> {}]

\* run_iteration: model = self.model_cls(**kwargs). SocialWorld.__init__
\* runs up to its while loop; MoneyModel.__init__ is never entered.
BatchConstruct ==
    /\ batch.pos = "next"
    /\ batch.combo <= Len(Grid)
    /\ IF ConstructorAccepts(kind)
       THEN LET N == Grid[batch.combo]
            IN  /\ batch' = [batch EXCEPT !.pos = "run", !.built = @ + 1]
                /\ num_agents' = N
                /\ p' = BatchP
                /\ G' \in erdos_renyi_graph(N, BatchP)
                /\ wealth' = [a \in AgentIds(N) |-> 0]
                /\ opinion' = [a \in AgentIds(N) |-> "NONE"]
                /\ running' = TRUE
                /\ pc' = "construct"
                /\ passRows' = <<>>
                /\ num_steps' = 0
                /\ schedule_steps' = 0
                /\ agent_keys' = <<>>
                /\ records' = <<>>
                /\ nei' = NoAgent
                /\ tick_opinion' = opinion'
                /\ activated' = [a \in AgentIds(N) |-> 0]
                /\ UNCHANGED <<kind, int_rate, ubi, apc, iter, other>>
       ELSE /\ batch' = [batch EXCEPT !.pos = "failed"]
            /\ UNCHANGED <<kind, num_agents, int_rate, ubi, p, G, wealth, opinion,
                           num_steps, running, schedule_steps, agent_keys, records,
                           pc, apc, iter, other, nei, tick_opinion, activated,
                           passRows>>

\* run_model: while model.running and model.schedule.steps < max_steps:
\* model.step().
BatchStep ==
    /\ batch.pos = "run"
    /\ pc = "idle"
    /\ running /\ schedule_steps < BatchMaxSteps
    /\ SocialWorldStep
    /\ UNCHANGED <<batch, nei, tick_opinion, kind, num_agents, int_rate, ubi, p, G,
                   wealth, opinion, schedule_steps, agent_keys, records, apc, iter,
                   other, activated, passRows>>

\* run_model has left its loop: self.model_vars[model_key] = the reporters'
\* values, with model_key = (N, run_count); then the next iteration, or the
\* next value of N.
BatchCollect ==
    /\ batch.pos = "run"
    /\ pc = "idle"
    /\ ~(running /\ schedule_steps < BatchMaxSteps)
    /\ LET last == batch.it + 1 = Iterations
       IN  batch' = [batch EXCEPT
                        !.pos = "next",
                        !.rows = @ \cup {<<Grid[batch.combo], batch.run_count>>},
                        !.run_count = @ + 1,
                        !.it = IF last THEN 0 ELSE @ + 1,
                        !.combo = IF last THEN @ + 1 ELSE @]
    /\ UNCHANGED <<kind, num_agents, int_rate, ubi, p, G, wealth, opinion,
                   num_steps, running, schedule_steps, agent_keys, records,
                   pc, apc, iter, other, nei, tick_opinion, activated, passRows>>

\* run_all returns: every value of N has had its iterations.
BatchReturn ==
    /\ batch.pos = "next"
    /\ batch.combo > Len(Grid)
    /\ batch' = [batch EXCEPT !.pos = "done"]
    /\ UNCHANGED <<kind, num_agents, int_rate, ubi, p, G, wealth, opinion,
                   num_steps, running, schedule_steps, agent_keys, records,
                   pc, apc, iter, other, nei, tick_opinion, activated, passRows>>

BatchNext ==
    \/ BatchConstruct
    \/ Regenerate
    \/ Construct
    \/ BatchStep
    \/ Collect
    \/ ScheduleStep
    \/ VoterStep
    \/ EndTick
    \/ BatchCollect
    \/ BatchReturn

BatchSpec == BatchInit /\ [][BatchNext]_vars

\* ================================================================= claims

\* C1: in every tick that reaches schedule.step(), step() is invoked on
\* every registered agent exactly once: no agent is activated twice during
\* the pass, and when the pass has visited its whole key list every agent
\* has been activated once.
C1_EveryAgentOncePerTick ==
    \A a \in Agents :
        /\ activated[a] <= 1
        /\ (pc = "tick" /\ agent_keys = <<>>) => activated[a] = 1

C1_Witness ==
    /\ pc = "tick"
    /\ agent_keys = <<>>
    /\ num_agents > 1
    /\ schedule_steps >= 1
    /\ \A a \in Agents : activated[a] = 1

\* C2: within every tick the metrics are collected before any agent is
\* activated, and the k-th collected record holds the reporter values of
\* the state left by exactly k-1 completed scheduler passes.
C2_RecordReflectsPriorPasses ==
    /\ Len(records) <= Len(passRows)
    /\ \A k \in 1 .. Len(records) :
           /\ records[k] = passRows[k]
           /\ records[k].step = k - 1
    /\ pc \in {"schedule", "tick"} => Len(records) = schedule_steps + 1

C2_Witness ==
    /\ pc = "tick"
    /\ Len(records) = 2
    /\ records[2].model_vars # records[1].model_vars
    /\ \E a \in Agents : activated[a] = 0

\* C3: run(n) starts at most n iterations and counts at most one tick for
\* each, and once a step() has ended with running = false the remaining
\* iterations collect no metrics, invoke no agent update and leave the
\* step counter unchanged.
C3_RunStopsWhenNotRunning ==
    /\ [](iter <= MaxSteps /\ num_steps <= iter)
    /\ [][(pc = "idle" /\ ~running) =>
              /\ pc' \in {"idle", "done"}
              /\ UNCHANGED <<records, num_steps, schedule_steps, wealth, opinion,
                             activated, agent_keys, running>>]_vars

C3_Witness ==
    /\ pc = "idle"
    /\ ~running
    /\ iter > num_steps
    /\ num_steps >= 1

\* C4: one give_money call leaves the sum of all wealths unchanged, for
\* every initiator, partner (the initiator included) and wealth vector, and
\* changes the wealth of no agent but the initiator and the partner.
C4_GiveMoneyConservesTotal ==
    [][(pc = "tick" /\ apc = "give" /\ apc' = "ubi" /\ other' # NoAgent) =>
           /\ SumOver(wealth', Agents) = SumOver(wealth, Agents)
           /\ \A b \in Agents \ {Head(agent_keys), other'} : wealth'[b] = wealth[b]]_vars

C4_Witness ==
    /\ pc = "tick"
    /\ apc = "ubi"
    /\ num_agents = 3
    /\ other = Head(agent_keys)
    /\ \E b \in Agents : wealth[b] < 0

\* C5: with int_rate = 0 and ubi = 0 the total wealth is N (N * Unit in
\* model units) in every reachable state, so it is the same before and
\* after every tick, for every activation order and choice of partners.
C5_TotalWealthIsN ==
    (kind = "money" /\ int_rate = 0 /\ ubi = 0) => TotalWealth = num_agents * Unit

C5_Witness ==
    /\ kind = "money"
    /\ int_rate = 0
    /\ ubi = 0
    /\ schedule_steps >= 1
    /\ \E a \in Agents : wealth[a] = 0
    /\ \E a \in Agents : wealth[a] = num_agents * Unit

\* C6: the amount given is max(wealth, 1), never clamped: an agent whose
\* wealth after interest is <= 0 makes no transfer; one that draws itself
\* keeps its wealth; one that draws another agent loses max(wealth, 1),
\* which the partner gains, so that with 0 < wealth < 1 its wealth becomes
\* negative.
C6_TransferFlooredNotClamped ==
    [][(pc = "tick" /\ kind = "money" /\ apc = "give" /\ apc' = "ubi") =>
           LET a == Head(agent_keys)
               w == wealth[a]
               amount == IF w >= Unit THEN w ELSE Unit
           IN  /\ w <= 0 => (other' = NoAgent /\ wealth' = wealth)
               /\ w > 0 => other' \in Agents
               /\ (w > 0 /\ other' = a) => wealth' = wealth
               /\ (w > 0 /\ other' # a) =>
                      /\ wealth'[a] = w - amount
                      /\ wealth'[other'] = wealth[other'] + amount
               /\ (0 < w /\ w < Unit /\ other' # a) => wealth'[a] < 0]_vars

C6_Witness ==
    /\ pc = "tick"
    /\ kind = "money"
    /\ apc = "ubi"
    /\ other \in Agents
    /\ other # Head(agent_keys)
    /\ wealth[Head(agent_keys)] < 0

\* C7: a metrics collection that meets zero total wealth yields a row (the
\* Gini reporter returns a sentinel), so the tick goes on and the run is
\* not aborted.
C7_ZeroTotalWealthCollects ==
    [][(pc = "collect" /\ kind = "money" /\ TotalWealth = 0) =>
           (pc' # "failed" /\ Len(records') = Len(records) + 1)]_vars

\* C8: the Gini value collected for a population whose wealths are all
\* strictly positive is 0 when the wealths are all equal and, for N > 1,
\* at least 0 and less than 1.
C8_GiniRange ==
    \A k \in 1 .. Len(records) :
        LET w == records[k].agent_vars
            g == records[k].model_vars
        IN  (kind = "money" /\ \A a \in Agents : w[a] > 0) =>
                /\ g[2] > 0
                /\ (\A a, b \in Agents : w[a] = w[b]) => g[1] = 0
                /\ num_agents > 1 => (0 <= g[1] /\ g[1] < g[2])

C8_Witness ==
    /\ Len(records) = 1
    /\ num_agents > 1
    /\ \A a \in Agents : records[1].agent_vars[a] > 0
    /\ \E a, b \in Agents : records[1].agent_vars[a] # records[1].agent_vars[b]
    /\ records[1].model_vars[1] > 0

\* Connectivity stated on cuts: every split of the nodes into two
\* non-empty parts is crossed by an edge.
NoCut(E, N) ==
    \A S \in SUBSET AgentIds(N) :
        (S # {} /\ S # AgentIds(N)) =>
            \E a \in S, b \in AgentIds(N) \ S : {a, b} \in E

\* C9: once construction is over the contact graph is connected, and no
\* step regenerates or changes it: the edge set stays the same.
C9_GraphConnectedAndFixed ==
    /\ []((kind = "social" /\ pc # "construct") => NoCut(G, num_agents))
    /\ [][pc # "construct" => G' = G]_vars

C9_Witness ==
    /\ kind = "social"
    /\ num_agents > 1
    /\ p > 0 /\ p < PDen
    /\ schedule_steps >= 1
    /\ G # {}

\* C10: the construction of a SocialWorld always comes to an end, with a
\* connected graph or a reported failure, for every N and p.
C10_ConstructionTerminates == <>(pc # "construct")

\* C11: once the pre-step check has set running to false the stepping
\* halts: the scheduler is not invoked and no agent update runs while
\* running is false.
C11_NoPassOnceNotRunning ==
    (kind = "social" /\ ~running) => pc \notin {"schedule", "tick"}

\* The step of the run is the whole VoterAgent.step of the agent at the
\* head of the key list.
VoterStepTaken ==
    pc = "tick" /\ kind = "social" /\ agent_keys # <<>> /\ agent_keys' = Tail(agent_keys)

AllAgree(op) == \A a, b \in Agents : op[a] = op[b]

\* C12: when all agents start with the same opinion, running is false from
\* the first pre-step check on and every agent holds its initial opinion in
\* every state of the run.
C12_SameStartNeverChanges ==
    (kind = "social" /\ pc # "construct" /\ passRows[1].model_vars[1] \in {0, num_agents}) =>
        /\ \A a \in Agents :
               opinion[a] = IF passRows[1].model_vars[1] = num_agents THEN "RED" ELSE "BLUE"
        /\ num_steps >= 1 => ~running

C12_Witness ==
    /\ kind = "social"
    /\ pc = "done"
    /\ num_agents = 2
    /\ passRows[1].model_vars[1] \in {0, num_agents}
    /\ schedule_steps = 1
    /\ iter > num_steps

\* C13: the update of agent a changes no opinion but a's own; with no
\* neighbour it changes nothing, otherwise a ends with the opinion of the
\* neighbour it consulted, and that neighbour keeps its opinion.
C13_OneDirectionalImitation ==
    [][VoterStepTaken =>
           LET a == Head(agent_keys)
           IN  /\ \A b \in Agents \ {a} : opinion'[b] = opinion[b]
               /\ Adj(G, a) = {} => (nei' = NoAgent /\ opinion' = opinion)
               /\ Adj(G, a) # {} =>
                      /\ nei' \in Agents \ {a}
                      /\ opinion'[a] = opinion'[nei']]_vars

C13_Witness ==
    /\ kind = "social"
    /\ pc = "tick"
    /\ Len(agent_keys) = num_agents - 1
    /\ nei \in Agents
    /\ opinion # tick_opinion
    /\ opinion[nei] = tick_opinion[nei]

\* C14: the opinion an activated agent ends with is the one its neighbour
\* holds at the moment of the activation, also when the neighbour adopted
\* it earlier in the same tick and held another one when the tick started.
C14_NoSnapshot ==
    [][(VoterStepTaken /\ nei' # NoAgent) =>
           opinion'[Head(agent_keys)] = opinion[nei']]_vars

C14_Witness ==
    /\ kind = "social"
    /\ pc = "tick"
    /\ agent_keys = <<>>
    /\ nei \in Agents
    /\ opinion[nei] # tick_opinion[nei]
    /\ \E a \in Agents \ {nei} :
           /\ opinion[a] = opinion[nei]
           /\ tick_opinion[a] # tick_opinion[nei]

\* C17: the agent an activated agent consults is bound to a node adjacent
\* to its own node, in every tick.
C17_PartnerIsNeighbour ==
    [][(VoterStepTaken /\ Adj(G, Head(agent_keys)) # {}) =>
           {Head(agent_keys), nei'} \in G]_vars

C17_Witness ==
    /\ kind = "social"
    /\ pc = "tick"
    /\ schedule_steps >= 1
    /\ nei \in Agents
    /\ {nei} \cup Range(agent_keys) # Agents

\* C18: once all agents hold the same opinion, no step of the run changes
\* any opinion.
C18_UnanimityAbsorbing ==
    [][(kind = "social" /\ pc # "construct" /\ AllAgree(opinion)) =>
           opinion' = opinion]_vars

C18_Witness ==
    /\ kind = "social"
    /\ pc = "tick"
    /\ num_agents > 1
    /\ nei \in Agents
    /\ AllAgree(tick_opinion)
    /\ opinion = tick_opinion

\* C19: running = false implies that all agents agree, and num_steps counts
\* the ticks whose scheduler pass was invoked: between ticks it equals the
\* number of passes, the pass of the tick that detected convergence
\* included, and inside a tick it is one more than the passes completed.
C19_NotRunningMeansAgreed ==
    (kind = "social" /\ pc # "construct") =>
        /\ ~running => (AllAgree(opinion) /\ num_steps >= 1)
        /\ pc \in {"idle", "done"} => num_steps = schedule_steps
        /\ pc \in {"collect", "schedule", "tick"} => num_steps = schedule_steps + 1

C19_Witness ==
    /\ kind = "social"
    /\ pc = "done"
    /\ num_agents > 1
    /\ ~running
    /\ num_steps = 2
    /\ schedule_steps = 2

\* C20: with int_rate = 0 and ubi = 0 every wealth is a non-negative whole
\* number (a multiple of Unit in model units) in every reachable state, the
\* total is never zero and no collection fails.
C20_WealthNonNegativeInteger ==
    (kind = "money" /\ int_rate = 0 /\ ubi = 0) =>
        /\ \A a \in Agents : wealth[a] >= 0 /\ wealth[a] % Unit = 0
        /\ TotalWealth > 0
        /\ pc # "failed"

C20_Witness ==
    /\ kind = "money"
    /\ int_rate = 0
    /\ ubi = 0
    /\ pc = "tick"
    /\ apc = "give"
    /\ agent_keys # <<>>
    /\ wealth[Head(agent_keys)] = 0

C16_BatchProducesAllRows ==
    (batch.pos \in {"done", "failed"}) =>
        /\ batch.built = Trials
        /\ batch.rows = {<<Grid[c], (c - 1) * Iterations + i>> :
                            c \in 1 .. Len(Grid), i \in 0 .. (Iterations - 1)}

\* The part of C16 that the batch of bvm.py keeps: when run_all returns,
\* there is one row per pair, and a trial that stopped early and a trial
\* that ran to max_steps both count.
BvmBatchRows ==
    (kind = "social" /\ batch.pos = "done") =>
        /\ batch.built = Trials
        /\ Cardinality(batch.rows) = Trials

====
